---- MODULE Spec2Model ----
(***************************************************************************)
(* Model of praerie/ray_tracer: the Tuple value type of src/tuples.py, the *)
(* tolerance comparator of src/utils/math_utils.py, to_rgb, and the        *)
(* cannonball stepping loop of src/cannonball.py.                          *)
(*                                                                         *)
(* NUMBERS.  A Python float is modelled as a decimal fixed-point number:   *)
(* the integer n stands for the float n / SCALE.  Sums and differences are *)
(* exact; products, quotients and square roots are rounded to the nearest  *)
(* unit (ties to even), which is a coarser rounding than IEEE-754 binary64 *)
(* but still far below EPSILON.  Three more values stand for the floats    *)
(* that have no fixed-point value: PosInf / NegInf (float('inf')), NaN,    *)
(* and Big / NegBig, a finite float so large that squaring it overflows    *)
(* (such as 1e200).  Every float operation of the source goes through one  *)
(* of the F... operators below, which treat those values as Python does.   *)
(* A raised exception is modelled as the result ["err" |-> its class].     *)
(***************************************************************************)
EXTENDS Integers, Sequences, FiniteSets, TLC

----------------------------------------------------------------------------
(* The float domain *)

\* units per 1.0
SCALE == 10^7
\* largest finite magnitude of the fixed-point range (200.0)
MaxFin == 200 * SCALE
Big == MaxFin + 1
NegBig == -Big
PosInf == MaxFin + 2
NegInf == -PosInf
NaN == MaxFin + 3

IsNaN(a) == a = NaN
IsInf(a) == a = PosInf \/ a = NegInf
IsBig(a) == a = Big \/ a = NegBig
IsFin(a) == a >= -MaxFin /\ a <= MaxFin

\* the float n (an integer literal of the source, or an int converted to float)
F(n) == n * SCALE

Abs(n) == IF n < 0 THEN -n ELSE n
Sign(n) == IF n < 0 THEN -1 ELSE IF n > 0 THEN 1 ELSE 0

\* a * b = q * SCALE + r with 0 <= r < SCALE, for 0 <= a < SCALE and b >= 0,
\* taking b six bits at a time so that no intermediate value leaves the
\* 32-bit range
RECURSIVE MulModQR(_, _)
MulModQR(a, b) ==
    IF b = 0 THEN <<0, 0>>
    ELSE LET h == MulModQR(a, b \div 64)
             t == 64 * h[2] + a * (b % 64)
         IN  <<64 * h[1] + t \div SCALE, t % SCALE>>

\* a * b = q * SCALE + r with 0 <= r < SCALE, for a, b >= 0
MulDivQR(a, b) ==
    LET h == MulModQR(a % SCALE, b)
    IN  <<(a \div SCALE) * b + h[1], h[2]>>

\* long division: k more decimal digits of the quotient q, remainder r, by b
RECURSIVE LongDiv(_, _, _, _)
LongDiv(q, r, b, k) ==
    IF k = 0 THEN <<q, r>>
    ELSE LongDiv(10 * q + (10 * r) \div b, (10 * r) % b, b, k - 1)

\* a * SCALE = q * b + r with 0 <= r < b, for a >= 0 and b > 0
DivQR(a, b) == LongDiv(a \div b, a % b, b, 7)

\* q + r/d rounded to the nearest integer, ties to even
RoundHalfEven(qr, d) ==
    IF qr[2] > d - qr[2] THEN qr[1] + 1
    ELSE IF qr[2] = d - qr[2] /\ qr[1] % 2 = 1 THEN qr[1] + 1
    ELSE qr[1]

\* A two-limb natural number <<hi, lo>> stands for hi * SCALE + lo, with
\* 0 <= lo < SCALE: a sum of squares of fixed-point numbers, held exactly.
LimbAdd(m, n) == <<m[1] + n[1] + (m[2] + n[2]) \div SCALE, (m[2] + n[2]) % SCALE>>
LimbLeq(m, n) == m[1] < n[1] \/ (m[1] = n[1] /\ m[2] <= n[2])

\* no root of a representable sum of squares reaches RootLimit
RootLimit == 142 * (SCALE \div 10)

\* r * r <= n, for a two-limb n
SqLeq(r, n) == IF r >= RootLimit THEN FALSE ELSE LimbLeq(MulDivQR(r, r), n)

\* the largest r with r * r <= n: the decimal digits of the root from the
\* place 10^k down, r being the digits found so far
RECURSIVE ISqrtDigits(_, _, _)
ISqrtDigits(r, k, n) ==
    LET p == 10^k
        dg == CHOOSE d \in 0..9 : SqLeq(r + d * p, n)
                                  /\ (d = 9 \/ ~SqLeq(r + (d + 1) * p, n))
    IN  IF k = 0 THEN r + dg ELSE ISqrtDigits(r + dg * p, k - 1, n)

\* the square root of the two-limb n, rounded to the nearest integer
RoundedRoot(n) ==
    LET r == ISqrtDigits(0, 8, n)
    IN  IF LimbLeq(MulDivQR(r, r + 1), n) /\ MulDivQR(r, r + 1) # n
        THEN r + 1 ELSE r

----------------------------------------------------------------------------
(* Float operations, as Python evaluates them *)

\* -a
FNeg(a) == IF IsNaN(a) THEN NaN ELSE -a

\* abs(a)
FAbs(a) == IF IsNaN(a) THEN NaN ELSE Abs(a)

\* a + b
FAdd(a, b) ==
    IF IsNaN(a) \/ IsNaN(b) THEN NaN
    ELSE IF IsInf(a) THEN (IF IsInf(b) /\ b # a THEN NaN ELSE a)
    ELSE IF IsInf(b) THEN b
    ELSE IF IsBig(a) THEN (IF b = a THEN PosInf * Sign(a)
                           ELSE IF b = -a THEN 0 ELSE a)
    ELSE IF IsBig(b) THEN b
    ELSE a + b

\* a - b
FSub(a, b) == FAdd(a, FNeg(b))

\* a < b
FLt(a, b) == IF IsNaN(a) \/ IsNaN(b) THEN FALSE ELSE a < b

\* a > b
FGt(a, b) == FLt(b, a)

\* a * b, for operands that are not Big
FMul(a, b) ==
    IF IsNaN(a) \/ IsNaN(b) THEN NaN
    ELSE IF IsInf(a) \/ IsInf(b)
         THEN (IF a = 0 \/ b = 0 THEN NaN ELSE PosInf * Sign(a) * Sign(b))
    ELSE Sign(a) * Sign(b) * RoundHalfEven(MulDivQR(Abs(a), Abs(b)), SCALE)

\* a / b for b # 0 (Python raises ZeroDivisionError when b = 0: see the
\* callers), for operands that are not Big
FDiv(a, b) ==
    IF IsNaN(a) \/ IsNaN(b) THEN NaN
    ELSE IF IsInf(a) THEN (IF IsInf(b) THEN NaN ELSE PosInf * Sign(a) * Sign(b))
    ELSE IF IsInf(b) THEN 0
    ELSE Sign(a) * Sign(b) * RoundHalfEven(DivQR(Abs(a), Abs(b)), Abs(b))

\* math.sqrt(c1**2 + c2**2 + c3**2 + c4**2) for a sequence cs of four floats
\* none of which is Big (Big ** 2 raises OverflowError: see magnitude).  The
\* sum of the squares is held exactly and the root rounded once.
FRootOfSquares(cs) ==
    IF \E i \in 1..4 : IsNaN(cs[i]) THEN NaN
    ELSE IF \E i \in 1..4 : IsInf(cs[i]) THEN PosInf
    ELSE LET sq(i) == MulDivQR(Abs(cs[i]), Abs(cs[i]))
         IN  RoundedRoot(LimbAdd(LimbAdd(sq(1), sq(2)), LimbAdd(sq(3), sq(4))))

----------------------------------------------------------------------------
(* src/utils/math_utils.py *)

\* EPSILON = 1e-6
EPSILON == SCALE \div 10^6

\* equal(a, b, eps=EPSILON): abs(a - b) < eps
equal(m, n) == FLt(FAbs(FSub(m, n)), EPSILON)

----------------------------------------------------------------------------
(* src/tuples.py: the Tuple dataclass *)

Tuple(x, y, z, w) == [x |-> x, y |-> y, z |-> z, w |-> w]

\* what a call produces: a returned value, or a raised exception and its message
Return(v) == [err |-> "none", val |-> v]
Raise(e, m) == [err |-> e, val |-> m]

is_point(t) == equal(t.w, F(1))

is_vector(t) == equal(t.w, 0)

\* a slip in the factory: the point built with the vector's w
point_with_vector_w(x, y, z) == Tuple(x, y, z, 0)

point(x, y, z) == Tuple(x, y, z, F(1))

vector(x, y, z) == Tuple(x, y, z, 0)

color(red, green, blue) == Tuple(red, green, blue, 0)

\* a slip in __add__: w copied from the receiver instead of summed
add_keeps_w(self, other) ==
    Tuple(FAdd(self.x, other.x), FAdd(self.y, other.y),
          FAdd(self.z, other.z), self.w)

\* __add__, for other a Tuple (isinstance(other, Tuple) holds)
add(self, other) ==
    Tuple(FAdd(self.x, other.x), FAdd(self.y, other.y),
          FAdd(self.z, other.z), FAdd(self.w, other.w))

\* __sub__, for other a Tuple
sub(self, other) ==
    Tuple(FSub(self.x, other.x), FSub(self.y, other.y),
          FSub(self.z, other.z), FSub(self.w, other.w))

\* __eq__, for other a Tuple
eq(self, other) ==
    /\ equal(self.x, other.x)
    /\ equal(self.y, other.y)
    /\ equal(self.z, other.z)
    /\ equal(self.w, other.w)

\* __neg__
neg(self) == Tuple(FNeg(self.x), FNeg(self.y), FNeg(self.z), FNeg(self.w))

\* __mul__
mul(self, s) ==
    Tuple(FMul(self.x, s), FMul(self.y, s), FMul(self.z, s), FMul(self.w, s))

\* x / 0 under bare IEEE-754 rules, which Python does not follow
IeeeDivByZero(x) == IF IsNaN(x) \/ x = 0 THEN NaN ELSE PosInf * Sign(x)

\* a division that never raises, with IEEE-754 results for a zero divisor
truediv_ieee(self, s) ==
    IF s = 0 THEN Return(Tuple(IeeeDivByZero(self.x), IeeeDivByZero(self.y),
                               IeeeDivByZero(self.z), IeeeDivByZero(self.w)))
    ELSE Return(Tuple(FDiv(self.x, s), FDiv(self.y, s),
                      FDiv(self.z, s), FDiv(self.w, s)))

\* __truediv__: Python's float division raises ZeroDivisionError on a zero
\* divisor, whatever the dividend
truediv(self, s) ==
    IF s = 0 THEN Raise("ZeroDivisionError", "float division by zero")
    ELSE Return(Tuple(FDiv(self.x, s), FDiv(self.y, s),
                      FDiv(self.z, s), FDiv(self.w, s)))

\* magnitude: x**2 raises OverflowError when the square of a finite float
\* is out of the float range; inf ** 2 is inf and nan ** 2 is nan
magnitude(self) ==
    IF IsBig(self.x) \/ IsBig(self.y) \/ IsBig(self.z) \/ IsBig(self.w)
    THEN Raise("OverflowError", "(34, 'Numerical result out of range')")
    ELSE Return(FRootOfSquares(<<self.x, self.y, self.z, self.w>>))

\* is_unit_vector: the and short-circuits, so magnitude() runs for vectors only
is_unit_vector(self) ==
    IF ~is_vector(self) THEN Return(FALSE)
    ELSE LET m == magnitude(self)
         IN  IF m.err # "none" THEN m ELSE Return(equal(m.val, F(1)))

\* a slip in normalize: z left undivided
normalize_forgets_z(self) ==
    IF ~is_vector(self)
    THEN Raise("ValueError", "Normalize is only defined for vectors.")
    ELSE LET m == magnitude(self)
         IN  IF m.err # "none" THEN m
             ELSE IF equal(m.val, 0)
             THEN Raise("ValueError", "A zero vector cannot be normalized.")
             ELSE Return(Tuple(FDiv(self.x, m.val), FDiv(self.y, m.val),
                               self.z, 0))

normalize(self) ==
    IF ~is_vector(self)
    THEN Raise("ValueError", "Normalize is only defined for vectors.")
    ELSE LET m == magnitude(self)
         IN  IF m.err # "none" THEN m
             ELSE IF equal(m.val, 0)
             THEN Raise("ValueError", "A zero vector cannot be normalized.")
             ELSE Return(Tuple(FDiv(self.x, m.val), FDiv(self.y, m.val),
                               FDiv(self.z, m.val), 0))

\* a slip in dot: the w term left out
dot_without_w(self, other) ==
    IF ~is_vector(self)
    THEN Raise("ValueError", "Dot product cannot be performed on points.")
    ELSE Return(FAdd(FAdd(FMul(self.x, other.x), FMul(self.y, other.y)),
                     FMul(self.z, other.z)))

\* dot, for other a Tuple: only the receiver is checked
dot(self, other) ==
    IF ~is_vector(self)
    THEN Raise("ValueError", "Dot product cannot be performed on points.")
    ELSE Return(FAdd(FAdd(FAdd(FMul(self.x, other.x), FMul(self.y, other.y)),
                          FMul(self.z, other.z)),
                     FMul(self.w, other.w)))

\* a slip in cross: only the receiver checked, as dot does
cross_checks_receiver_only(self, other) ==
    IF ~is_vector(self)
    THEN Raise("ValueError", "Cross product is only defined for vectors.")
    ELSE Return(Tuple(FSub(FMul(self.y, other.z), FMul(self.z, other.y)),
                      FSub(FMul(self.z, other.x), FMul(self.x, other.z)),
                      FSub(FMul(self.x, other.y), FMul(self.y, other.x)),
                      0))

\* cross, for other a Tuple
cross(self, other) ==
    IF ~(is_vector(self) /\ is_vector(other))
    THEN Raise("ValueError", "Cross product is only defined for vectors.")
    ELSE Return(Tuple(FSub(FMul(self.y, other.z), FMul(self.z, other.y)),
                      FSub(FMul(self.z, other.x), FMul(self.x, other.z)),
                      FSub(FMul(self.x, other.y), FMul(self.y, other.x)),
                      0))

\* int(max(0, min(255, round(v * 255)))) for one channel v: round() raises
\* on NaN and on an infinity; v * 255 is exact here, q + r / SCALE
channel(v) ==
    IF IsNaN(v) THEN Raise("ValueError", "cannot convert float NaN to integer")
    ELSE IF IsInf(v)
    THEN Raise("OverflowError", "cannot convert float infinity to integer")
    ELSE IF IsBig(v) THEN Return(IF v > 0 THEN 255 ELSE 0)
    ELSE LET rounded == Sign(v) * RoundHalfEven(MulDivQR(Abs(v), 255), SCALE)
             upper == IF 255 < rounded THEN 255 ELSE rounded
         IN  Return(IF 0 > upper THEN 0 ELSE upper)

\* to_rgb: the three channels in order, the first exception propagating
to_rgb(c) ==
    IF channel(c.x).err # "none" THEN channel(c.x)
    ELSE IF channel(c.y).err # "none" THEN channel(c.y)
    ELSE IF channel(c.z).err # "none" THEN channel(c.z)
    ELSE Return(<<channel(c.x).val, channel(c.y).val, channel(c.z).val>>)

----------------------------------------------------------------------------
(* src/cannonball.py *)

Projectile(position, velocity) == [position |-> position, velocity |-> velocity]
Environment(gravity, wind) == [gravity |-> gravity, wind |-> wind]

\* a slip in step: the wind left out of the new velocity
step_without_wind(e, proj) ==
    Projectile(add(proj.position, proj.velocity),
               add(proj.velocity, e.gravity))

\* step(env, proj)
step(e, proj) ==
    LET new_position == add(proj.position, proj.velocity)
        new_velocity == add(add(proj.velocity, e.gravity), e.wind)
    IN  Projectile(new_position, new_velocity)

\* a slip in the loop test: x tested instead of y
InFlightByX(proj) == FGt(proj.position.x, 0)

\* the loop test: p.position.y > 0
InFlight(proj) == FGt(proj.position.y, 0)

\* 0.1 and 0.01
Tenth == SCALE \div 10
Hundredth == SCALE \div 100

\* p = Projectile(position=point(0, 1, 0), velocity=vector(1, 1, 0))
StartProjectile == Projectile(point(0, F(1), 0), vector(F(1), F(1), 0))
\* env = Environment(gravity=vector(0, -0.1, 0), wind=vector(-0.01, 0, 0))
StartEnvironment == Environment(vector(0, -Tenth, 0), vector(-Hundredth, 0, 0))

----------------------------------------------------------------------------
(* State *)

VARIABLES
    a,       \* the receiver (self) of the call
    b,       \* the other Tuple operand of the call
    scalar,  \* the scalar operand of the call
    op,      \* the operation called, "none" before the call
    res,     \* what the call produced
    p,       \* cannonball.py: the projectile
    env,     \* cannonball.py: the environment
    steps,   \* cannonball.py: the step counter
    pc,      \* cannonball.py: the statement to run next
    frame,   \* the locals of the running call of step, <<>> outside a call
    out      \* the lines printed, each <<steps, position, velocity>>

vars == <<a, b, scalar, op, res, p, env, steps, pc, frame, out>>

NoResult == Return("none")

\* no Tuple method is being called
NoCall ==
    /\ a = vector(0, 0, 0)
    /\ b = vector(0, 0, 0)
    /\ scalar = 0
    /\ op = "none"
    /\ res = NoResult

\* cannonball.py is not running
NoModule ==
    /\ p = StartProjectile
    /\ env = StartEnvironment
    /\ steps = 0
    /\ pc = "start"
    /\ frame = <<>>
    /\ out = <<>>

----------------------------------------------------------------------------
(* Construction, classification and arithmetic: one call on drawn operands *)

\* sample floats for the receiver's x: negative, zero, fractional, non-finite
XsA == {-15 * (SCALE \div 10), 0, F(2), 3 * (SCALE \div 10), PosInf, NaN}
\* sample w: vector, point, half, tolerance noise, non-finite
WsA == {0, F(1), SCALE \div 2, 5, NaN}
TuplesA == {Tuple(x, y, F(3), w) : x \in XsA, y \in {0, F(-1)}, w \in WsA}
TuplesB == {Tuple(x, F(1), F(-3), w) : x \in {0, F(2), NegInf}, w \in {0, F(1)}}
Scalars == {0, F(2), SCALE \div 2, F(-1), PosInf, NaN}

InitArith ==
    /\ NoModule
    /\ a \in TuplesA
    /\ b \in TuplesB
    /\ scalar \in Scalars
    /\ op = "none"
    /\ res = NoResult

\* Tuple.point(x, y, z), the arguments being the receiver's x, y, z
Point ==
    /\ op = "none"
    /\ op' = "point"
    /\ res' = Return(point(a.x, a.y, a.z))
    /\ UNCHANGED <<a, b, scalar, p, env, steps, pc, frame, out>>

\* Tuple.vector(x, y, z)
Vector ==
    /\ op = "none"
    /\ op' = "vector"
    /\ res' = Return(vector(a.x, a.y, a.z))
    /\ UNCHANGED <<a, b, scalar, p, env, steps, pc, frame, out>>

\* Tuple.color(red, green, blue)
Color ==
    /\ op = "none"
    /\ op' = "color"
    /\ res' = Return(color(a.x, a.y, a.z))
    /\ UNCHANGED <<a, b, scalar, p, env, steps, pc, frame, out>>

\* a.is_point
IsPoint ==
    /\ op = "none"
    /\ op' = "is_point"
    /\ res' = Return(is_point(a))
    /\ UNCHANGED <<a, b, scalar, p, env, steps, pc, frame, out>>

\* a.is_vector
IsVector ==
    /\ op = "none"
    /\ op' = "is_vector"
    /\ res' = Return(is_vector(a))
    /\ UNCHANGED <<a, b, scalar, p, env, steps, pc, frame, out>>

\* a + b
Add ==
    /\ op = "none"
    /\ op' = "add"
    /\ res' = Return(add(a, b))
    /\ UNCHANGED <<a, b, scalar, p, env, steps, pc, frame, out>>

\* a - b
Sub ==
    /\ op = "none"
    /\ op' = "sub"
    /\ res' = Return(sub(a, b))
    /\ UNCHANGED <<a, b, scalar, p, env, steps, pc, frame, out>>

\* a == b
Eq ==
    /\ op = "none"
    /\ op' = "eq"
    /\ res' = Return(eq(a, b))
    /\ UNCHANGED <<a, b, scalar, p, env, steps, pc, frame, out>>

\* -a
Neg ==
    /\ op = "none"
    /\ op' = "neg"
    /\ res' = Return(neg(a))
    /\ UNCHANGED <<a, b, scalar, p, env, steps, pc, frame, out>>

\* a * scalar
Mul ==
    /\ op = "none"
    /\ op' = "mul"
    /\ res' = Return(mul(a, scalar))
    /\ UNCHANGED <<a, b, scalar, p, env, steps, pc, frame, out>>

\* a / scalar
Div ==
    /\ op = "none"
    /\ op' = "truediv"
    /\ res' = truediv(a, scalar)
    /\ UNCHANGED <<a, b, scalar, p, env, steps, pc, frame, out>>

NextArith ==
    \/ Point \/ Vector \/ Color \/ IsPoint \/ IsVector
    \/ Add \/ Sub \/ Eq \/ Neg \/ Mul \/ Div

SpecArith == InitArith /\ [][NextArith]_vars

----------------------------------------------------------------------------
(* Magnitude and normalization: one call on a drawn receiver *)

\* ordinary receivers: x zero, ordinary, too large to square, non-finite;
\* w an exact vector, noise inside the tolerance, the tolerance itself, a
\* point, NaN
XsN == {0, F(1), F(-2), F(3), Big, PosInf, NaN}
YsN == {0, F(6)}
ZsN == {0, F(9)}
WsN == {0, 5, -5, EPSILON, F(1), NaN}
OrdinaryN == {Tuple(x, y, z, w) : x \in XsN, y \in YsN, z \in ZsN, w \in WsN}
\* receivers about as small as the tolerance, with magnitudes that are whole
\* numbers of units, so that rounding decides no tolerance test
TinyN ==
    {Tuple(1, 0, 0, 0), Tuple(-6, 0, 0, 0), Tuple(0, 0, 8, 0),
     Tuple(EPSILON, 0, 0, 0), Tuple(0, -EPSILON, 0, 0), Tuple(30, 40, 0, 0),
     Tuple(20, 40, 40, 0), Tuple(500, 0, 1200, 0),
     Tuple(12, 0, 0, 5), Tuple(0, 12, 0, -5), Tuple(3, 0, 0, 4),
     Tuple(8, 0, 0, 6), Tuple(0, 24, 0, 7), Tuple(1, 0, 0, EPSILON)}
TuplesN == OrdinaryN \cup TinyN

InitNorm ==
    /\ NoModule
    /\ a \in TuplesN
    /\ b = vector(0, 0, 0)
    /\ scalar = 0
    /\ op = "none"
    /\ res = NoResult

\* a.magnitude()
Magnitude ==
    /\ op = "none"
    /\ op' = "magnitude"
    /\ res' = magnitude(a)
    /\ UNCHANGED <<a, b, scalar, p, env, steps, pc, frame, out>>

\* a.is_unit_vector
IsUnitVector ==
    /\ op = "none"
    /\ op' = "is_unit_vector"
    /\ res' = is_unit_vector(a)
    /\ UNCHANGED <<a, b, scalar, p, env, steps, pc, frame, out>>

\* a.normalize()
Normalize ==
    /\ op = "none"
    /\ op' = "normalize"
    /\ res' = normalize(a)
    /\ UNCHANGED <<a, b, scalar, p, env, steps, pc, frame, out>>

NextNorm == Magnitude \/ IsUnitVector \/ Normalize

SpecNorm == InitNorm /\ [][NextNorm]_vars

----------------------------------------------------------------------------
(* Dot and cross product: one call on a drawn receiver and a drawn operand *)

\* 0.6 and 0.8, the legs of a unit vector
Leg6 == 6 * (SCALE \div 10)
Leg8 == 8 * (SCALE \div 10)
\* w: exact vector, noise inside the tolerance, point
WsP == {0, 5, F(1)}
TuplesP ==
    {Tuple(x, y, z, w) : x \in {0, F(1), F(-2), Leg6, PosInf, NaN},
                         y \in {0, F(1), F(3), Leg8},
                         z \in {0, F(-1)}, w \in WsP}
TuplesQ ==
    {Tuple(x, y, z, w) : x \in {0, F(1), F(-1), F(2), Leg6, -Leg8, NegInf},
                         y \in {0, F(1), Leg8, Leg6},
                         z \in {0, F(5)}, w \in WsP}

InitProd ==
    /\ NoModule
    /\ a \in TuplesP
    /\ b \in TuplesQ
    /\ scalar = 0
    /\ op = "none"
    /\ res = NoResult

\* a.dot(b)
Dot ==
    /\ op = "none"
    /\ op' = "dot"
    /\ res' = dot(a, b)
    /\ UNCHANGED <<a, b, scalar, p, env, steps, pc, frame, out>>

\* a.cross(b)
Cross ==
    /\ op = "none"
    /\ op' = "cross"
    /\ res' = cross(a, b)
    /\ UNCHANGED <<a, b, scalar, p, env, steps, pc, frame, out>>

NextProd == Dot \/ Cross

SpecProd == InitProd /\ [][NextProd]_vars

----------------------------------------------------------------------------
(* RGB export: one call on a drawn colour *)

\* v / 1000 as a float
Milli(v) == v * (SCALE \div 1000)
\* channel values: below 0, 0, rounding down, ties, rounding up, 1, above 1,
\* huge, non-finite
Reds == {Milli(-500), Milli(-1), 0, Milli(1), Milli(2), Milli(100), Milli(300),
         Milli(500), Milli(700), Milli(997), Milli(999), F(1), Milli(1500),
         Big, NegBig, PosInf, NegInf, NaN}
Greens == {0, Milli(-500), Milli(200), Milli(998), F(2), PosInf, NaN}
Blues == {0, Milli(1500), Milli(900), NaN}
Colors == {color(r, g, bl) : r \in Reds, g \in Greens, bl \in Blues}

InitRgb ==
    /\ NoModule
    /\ a \in Colors
    /\ b = vector(0, 0, 0)
    /\ scalar = 0
    /\ op = "none"
    /\ res = NoResult

\* to_rgb(a)
ToRgb ==
    /\ op = "none"
    /\ op' = "to_rgb"
    /\ res' = to_rgb(a)
    /\ UNCHANGED <<a, b, scalar, p, env, steps, pc, frame, out>>

NextRgb == ToRgb

SpecRgb == InitRgb /\ [][NextRgb]_vars

----------------------------------------------------------------------------
(* Claims checked under SpecRgb *)

\* n is v * 255 rounded to a nearest integer and then clamped to 0..255,
\* for a finite v
RoundThenClamp(n, v) ==
    LET qr == MulDivQR(Abs(v), 255)
    IN  /\ n \in 0..255
        /\ v <= 0 => n = 0
        /\ v > 0 /\ qr[1] >= 255 => n = 255
        /\ v > 0 /\ qr[1] < 255 =>
               /\ n \in {qr[1], qr[1] + 1}
               /\ n = qr[1] => qr[2] <= SCALE - qr[2]
               /\ n = qr[1] + 1 => qr[2] >= SCALE - qr[2]

\* C8: to_rgb(c) never raises; each output channel is the channel value times
\* 255, rounded to the nearest integer, then clamped to 0..255, an
\* infinite channel clamping like any other; to_rgb(color(-0.5, 0, 1.5))
\* is (0, 0, 255).
C8_ToRgbNeverRejects ==
    op = "to_rgb" =>
        /\ res.err = "none"
        /\ \A i \in 1..3 :
               LET v == <<a.x, a.y, a.z>>[i]
               IN  /\ res.val[i] \in 0..255
                   /\ IsFin(v) => RoundThenClamp(res.val[i], v)
                   /\ v = PosInf => res.val[i] = 255
                   /\ v = NegInf => res.val[i] = 0
        /\ a = color(Milli(-500), 0, Milli(1500)) => res.val = <<0, 0, 255>>

----------------------------------------------------------------------------
(* Claims checked under SpecProd *)

\* x, y and z are finite whole numbers
WholeXYZ(t) == \A c \in {t.x, t.y, t.z} : IsFin(c) /\ c % SCALE = 0
\* the whole number a whole float stands for
W(c) == c \div SCALE
FiniteTuple(t) == \A c \in {t.x, t.y, t.z, t.w} : IsFin(c)
\* a unit vector in the xy plane, with w exactly 0.0
PlaneUnit(t) == t.w = 0 /\ t.z = 0 /\ is_unit_vector(t) = Return(TRUE)
\* t turned by a quarter turn in the xy plane
QuarterTurn(t) == Tuple(-t.y, t.x, 0, 0)

CrossResult ==
    /\ ~(is_vector(a) /\ is_vector(b)) <=>
           res = Raise("ValueError", "Cross product is only defined for vectors.")
    /\ is_vector(a) /\ is_vector(b) <=> res.err = "none"
    /\ res.err = "none" => res.val.w = 0 /\ is_vector(res.val)
    /\ res.err = "none" /\ WholeXYZ(a) /\ WholeXYZ(b) =>
           /\ res.val.x = F(W(a.y) * W(b.z) - W(a.z) * W(b.y))
           /\ res.val.y = F(W(a.z) * W(b.x) - W(a.x) * W(b.z))
           /\ res.val.z = F(W(a.x) * W(b.y) - W(a.y) * W(b.x))

\* C5 as stated: cross(a, b) raises unless both are vectors; for all vectors
\* it returns (ay*bz - az*by, az*bx - ax*bz, ax*by - ay*bx, 0.0), a vector,
\* and cross(a, b) == -cross(b, a).
C5_CrossAnticommutative ==
    op = "cross" =>
        /\ CrossResult
        /\ res.err = "none" => eq(res.val, neg(cross(b, a).val))

\* C5 amended: the same, with cross(a, b) == -cross(b, a) for the vectors a
\* and b for which every component of cross(a, b) is finite.
C5_CrossAnticommutativeFinite ==
    op = "cross" =>
        /\ CrossResult
        /\ res.err = "none" /\ FiniteTuple(res.val) =>
               eq(res.val, neg(cross(b, a).val))

\* the cross product of two finite vectors has been returned, and is not zero
C5_Witness ==
    /\ op = "cross" /\ res.err = "none"
    /\ FiniteTuple(a) /\ FiniteTuple(b)
    /\ res.val.x # 0 /\ res.val.z # 0

----------------------------------------------------------------------------
(* Claims checked under SpecNorm *)

\* some component is a finite float whose square overflows
SquareOverflows(t) == \E c \in {t.x, t.y, t.z, t.w} : IsBig(c)
\* the magnitude can be computed and is within the tolerance of zero
MagnitudeNearZero(t) ==
    magnitude(t).err = "none" /\ equal(magnitude(t).val, 0)
IsUnitResult(r) ==
    /\ r.err = "none"
    /\ r.val.w = 0
    /\ is_unit_vector(r.val) = Return(TRUE)

C3_NormalizeFailsExactlyWhen ==
    op = "normalize" =>
        /\ ~is_vector(a) =>
               res = Raise("ValueError", "Normalize is only defined for vectors.")
        /\ is_vector(a) /\ MagnitudeNearZero(a) =>
               res = Raise("ValueError", "A zero vector cannot be normalized.")
        /\ is_vector(a) /\ ~MagnitudeNearZero(a) =>
               res.err = "none" /\ res.val.w = 0

----------------------------------------------------------------------------
(* Claims checked under SpecArith *)

\* the sum (difference) of two finite floats is the exact sum (difference)
SumOf(r, m, n) == IsFin(m) /\ IsFin(n) => r = m + n
DiffOf(r, m, n) == IsFin(m) /\ IsFin(n) => r = m - n

IsPointW(t) == t.w = F(1)
IsVectorW(t) == t.w = 0

\* C1: a + b and a - b return, without raising, the Tuple of the four
\* component-wise sums (differences), w included; so point + vector is a
\* point, vector + vector a vector, point - point a vector, point - vector a
\* point, vector - vector a vector, while point + point (w = 2.0) and
\* vector - point (w = -1.0) are neither is_point nor is_vector.
C1_AddSubComponentWise ==
    /\ op = "add" =>
        /\ res.err = "none"
        /\ SumOf(res.val.x, a.x, b.x) /\ SumOf(res.val.y, a.y, b.y)
        /\ SumOf(res.val.z, a.z, b.z) /\ SumOf(res.val.w, a.w, b.w)
        /\ IsPointW(a) /\ IsVectorW(b) =>
               is_point(res.val) /\ ~is_vector(res.val)
        /\ IsVectorW(a) /\ IsPointW(b) =>
               is_point(res.val) /\ ~is_vector(res.val)
        /\ IsVectorW(a) /\ IsVectorW(b) =>
               is_vector(res.val) /\ ~is_point(res.val)
        /\ IsPointW(a) /\ IsPointW(b) =>
               res.val.w = F(2) /\ ~is_point(res.val) /\ ~is_vector(res.val)
    /\ op = "sub" =>
        /\ res.err = "none"
        /\ DiffOf(res.val.x, a.x, b.x) /\ DiffOf(res.val.y, a.y, b.y)
        /\ DiffOf(res.val.z, a.z, b.z) /\ DiffOf(res.val.w, a.w, b.w)
        /\ IsPointW(a) /\ IsPointW(b) =>
               is_vector(res.val) /\ ~is_point(res.val)
        /\ IsPointW(a) /\ IsVectorW(b) =>
               is_point(res.val) /\ ~is_vector(res.val)
        /\ IsVectorW(a) /\ IsVectorW(b) =>
               is_vector(res.val) /\ ~is_point(res.val)
        /\ IsVectorW(a) /\ IsPointW(b) =>
               res.val.w = F(-1) /\ ~is_point(res.val) /\ ~is_vector(res.val)

\* a point has been added to a point, giving w = 2.0
C1_Witness ==
    op = "add" /\ IsPointW(a) /\ IsPointW(b) /\ res.val.w = F(2)

C7_Factories ==
    /\ op = "point" =>
        /\ res.err = "none"
        /\ res.val.w = F(1) /\ is_point(res.val) /\ ~is_vector(res.val)
        /\ <<res.val.x, res.val.y, res.val.z>> = <<a.x, a.y, a.z>>
    /\ op \in {"vector", "color"} =>
        /\ res.err = "none"
        /\ res.val.w = 0 /\ is_vector(res.val) /\ ~is_point(res.val)
        /\ <<res.val.x, res.val.y, res.val.z>> = <<a.x, a.y, a.z>>

\* a point has been built from a negative, fractional x
C7_Witness ==
    op = "point" /\ a.x < 0 /\ a.x % SCALE # 0 /\ res.val.w = F(1)

----------------------------------------------------------------------------
(* step, called again and again on a drawn projectile and environment *)

\* the most calls of step in a run
MaxSteps == 4

\* w of a position: exact point, vector, point within the tolerance
Positions ==
    {Tuple(0, y, 0, w) : y \in {F(1), 0, F(-1), SCALE \div 2},
                         w \in {F(1), 0, F(1) + 5}}
Velocities ==
    {Tuple(v[1], v[2], 0, w) :
        v \in {<<F(1), F(1)>>, <<0, F(-1)>>, <<F(2), SCALE \div 2>>},
        w \in {0, 5}}
Gravities == {Tuple(0, g, 0, w) : g \in {-Tenth, 0, Tenth}, w \in {0, 5}}
Winds == {vector(-Hundredth, 0, 0), vector(Hundredth, 0, 0)}

InitStep ==
    /\ NoCall
    /\ p \in {Projectile(q, v) : q \in Positions, v \in Velocities}
    /\ env \in {Environment(g, wd) : g \in Gravities, wd \in Winds}
    /\ steps = 0
    /\ pc = "start"
    /\ frame = <<>>
    /\ out = <<>>

\* p = step(env, p), once more
Step ==
    /\ steps < MaxSteps
    /\ p' = step(env, p)
    /\ steps' = steps + 1
    /\ UNCHANGED <<a, b, scalar, op, res, env, pc, frame, out>>

NextStep == Step

SpecStep == InitStep /\ [][NextStep]_vars

----------------------------------------------------------------------------
(* Claims checked under SpecStep *)

ExactPointAndVectors ==
    /\ IsPointW(p.position) /\ IsVectorW(p.velocity)
    /\ IsVectorW(env.gravity) /\ IsVectorW(env.wind)

\* C9: a call of step leaves the environment unchanged, sets the new position
\* to old position + old velocity and the new velocity to old velocity +
\* gravity + wind; and when the position is a point (w = 1), the velocity a
\* vector (w = 0) and gravity and wind vectors before it, the position is a
\* point and the velocity a vector after it, so after any number of calls.
C9_StepKeepsPointAndVector ==
    [][ /\ env' = env
        /\ \A c \in {"x", "y", "z", "w"} :
               /\ p'.position[c] = p.position[c] + p.velocity[c]
               /\ p'.velocity[c] =
                      p.velocity[c] + env.gravity[c] + env.wind[c]
        /\ ExactPointAndVectors =>
               /\ ExactPointAndVectors'
               /\ is_point(p'.position) /\ ~is_vector(p'.position)
               /\ is_vector(p'.velocity) /\ ~is_point(p'.velocity)
      ]_vars

\* step has been called at least twice on a point moved by a vector
C9_Witness ==
    /\ steps >= 2 /\ ExactPointAndVectors
    /\ p.position.x # 0 /\ p.velocity.y # F(1)

----------------------------------------------------------------------------
(* cannonball.py run as a module, statement by statement *)

InitCannon ==
    /\ NoCall
    /\ p = StartProjectile
    /\ env = StartEnvironment
    /\ steps = 0
    /\ pc = "start"
    /\ frame = <<>>
    /\ out = <<>>

\* print(f"Step {steps}: ...") before the loop
PrintStart ==
    /\ pc = "start"
    /\ out' = Append(out, <<steps, p.position, p.velocity>>)
    /\ pc' = "while"
    /\ UNCHANGED <<a, b, scalar, op, res, p, env, steps, frame>>

\* while p.position.y > 0:
WhileTest ==
    /\ pc = "while"
    /\ pc' = IF InFlight(p) THEN "new_position" ELSE "done"
    /\ UNCHANGED <<a, b, scalar, op, res, p, env, steps, frame, out>>

\* step: new_position = proj.position + proj.velocity
StepNewPosition ==
    /\ pc = "new_position"
    /\ frame' = [new_position |-> add(p.position, p.velocity)]
    /\ pc' = "new_velocity"
    /\ UNCHANGED <<a, b, scalar, op, res, p, env, steps, out>>

\* step: new_velocity = proj.velocity + env.gravity + env.wind
StepNewVelocity ==
    /\ pc = "new_velocity"
    /\ frame' = [new_position |-> frame.new_position,
                 new_velocity |-> add(add(p.velocity, env.gravity), env.wind)]
    /\ pc' = "return"
    /\ UNCHANGED <<a, b, scalar, op, res, p, env, steps, out>>

\* step: return Projectile(new_position, new_velocity), assigned to p
StepReturn ==
    /\ pc = "return"
    /\ p' = Projectile(frame.new_position, frame.new_velocity)
    /\ frame' = <<>>
    /\ pc' = "incr"
    /\ UNCHANGED <<a, b, scalar, op, res, env, steps, out>>

\* steps += 1
Incr ==
    /\ pc = "incr"
    /\ steps' = steps + 1
    /\ pc' = "print"
    /\ UNCHANGED <<a, b, scalar, op, res, p, env, frame, out>>

\* print(f"Step {steps}: ...") in the loop
PrintStep ==
    /\ pc = "print"
    /\ out' = Append(out, <<steps, p.position, p.velocity>>)
    /\ pc' = "while"
    /\ UNCHANGED <<a, b, scalar, op, res, p, env, steps, frame>>

NextCannon ==
    \/ PrintStart \/ WhileTest
    \/ StepNewPosition \/ StepNewVelocity \/ StepReturn
    \/ Incr \/ PrintStep

SpecCannon == InitCannon /\ [][NextCannon]_vars

\* a module that is run runs on until its last statement
SpecCannonLive == SpecCannon /\ WF_vars(NextCannon)

----------------------------------------------------------------------------
(* Claims checked under SpecCannonLive *)

\* the calls of step made so far: each takes 0.1 off the velocity's y, 1.0 at
\* the start
StepsTaken == (F(1) - p.velocity.y) \div Tenth

====
